---- MODULE Spec2Model ----
(***************************************************************************)
(* Model of dns-http-scrape.js: the staged verification funnel of main(),  *)
(* the three stage operations dnsLookup / httpCheck / fetchText and the    *)
(* three p-limit gates they are called through.                            *)
(*                                                                         *)
(* Strings are sequences of one-character strings, so that template        *)
(* literals, join, startsWith, the isIpHost regular expression and slice   *)
(* are computed on characters.  Page text is run-length encoded (a         *)
(* sequence of <<character, count>> runs) so that texts of 10001           *)
(* characters stay small; every text operation is computed on the runs.    *)
(***************************************************************************)
EXTENDS Integers, Sequences, FiniteSets, TLC

\* ---------------------------------------------------------------- config
LOG_INTERVAL == 100
TEXT_MIN_CHARS == 200
TEXT_MAX_CHARS == 10000
DNS_CONCURRENCY == 100
HTTP_CONCURRENCY == 20
TEXT_CONCURRENCY == 10

\* Bounds of the model.
MaxRows == 2
BurstRows == 131

\* A null field is the empty option Absent and a present value v is
\* Present(v), so that null differs from the empty string, Present(<<>>).
Absent == <<>>
Present(v) == <<v>>
Val(opt) == opt[1]

Stages == {"dns", "http", "text"}

\* pLimit(DNS_CONCURRENCY), pLimit(HTTP_CONCURRENCY), pLimit(TEXT_CONCURRENCY)
Concurrency(s) ==
    CASE s = "dns" -> DNS_CONCURRENCY
      [] s = "http" -> HTTP_CONCURRENCY
      [] s = "text" -> TEXT_CONCURRENCY

\* ---------------------------------------------------------------- strings
Digits == {"0", "1", "2", "3", "4", "5", "6", "7", "8", "9"}

S_https == <<"h", "t", "t", "p", "s", ":", "/", "/">>
S_http == <<"h", "t", "t", "p", ":", "/", "/">>
S_www == <<"w", "w", "w", ".">>
S_slash == <<"/">>

StartsWith(str, prefix) ==
    /\ Len(str) >= Len(prefix)
    /\ SubSeq(str, 1, Len(prefix)) = prefix

\* Array.prototype.join
RECURSIVE Join(_, _)
Join(parts, sep) ==
    IF Len(parts) = 0 THEN <<>>
    ELSE IF Len(parts) = 1 THEN parts[1]
    ELSE parts[1] \o sep \o Join(Tail(parts), sep)

\* Index of the first position >= from of str holding a character of stops,
\* Len(str) + 1 when there is none.
RECURSIVE FindFirst(_, _, _)
FindFirst(str, from, stops) ==
    IF from > Len(str) THEN Len(str) + 1
    ELSE IF str[from] \in stops THEN from
    ELSE FindFirst(str, from + 1, stops)

\* new URL(url): throws unless the string has a scheme and a host.
SchemeLen(url) ==
    IF StartsWith(url, S_https) THEN Len(S_https)
    ELSE IF StartsWith(url, S_http) THEN Len(S_http)
    ELSE 0

UrlParses(url) ==
    /\ SchemeLen(url) > 0
    /\ Len(url) > SchemeLen(url)
    /\ url[SchemeLen(url) + 1] \notin {"/", ":"}

\* new URL(url).hostname: the authority without the port; an IPv6 literal
\* keeps its brackets.
Hostname(url) ==
    LET start == SchemeLen(url) + 1
        stop == IF url[start] = "["
                THEN FindFirst(url, start, {"]"}) + 1
                ELSE FindFirst(url, start, {"/", ":"})
    IN SubSeq(url, start, IF stop - 1 > Len(url) THEN Len(url) ELSE stop - 1)

\* /^\d{1,3}/ at position p of str: the positions the match can end at.
DigitRunEnds(str, p) ==
    {e \in p..(p + 2) :
        /\ e <= Len(str)
        /\ \A k \in p..e : str[k] \in Digits}

\* The positions (last matched index) at which \d{1,3}(\.\d{1,3}){n} can end
\* when matching from position 1.
RECURSIVE QuadEnds(_, _)
QuadEnds(str, n) ==
    IF n = 0 THEN DigitRunEnds(str, 1)
    ELSE UNION {IF e + 1 <= Len(str) /\ str[e + 1] = "."
                THEN DigitRunEnds(str, e + 2)
                ELSE {} : e \in QuadEnds(str, n - 1)}

\* /^\d{1,3}(\.\d{1,3}){3}$/.test(host)
MatchesQuad(host) == Len(host) \in QuadEnds(host, 3)

\* Mutant: the regular expression is tested on the URL, not on its host.
isIpHostOnUrl(url) ==
    IF ~UrlParses(url) THEN FALSE
    ELSE MatchesQuad(url)

isIpHost(url) ==
    IF ~UrlParses(url) THEN FALSE
    ELSE MatchesQuad(Hostname(url))

\* ---------------------------------------------------------------- page text
\* A text is a sequence of runs <<c, n>>: n >= 1 copies of character c.
Whitespace == {" ", "\n", "\t"}

RECURSIVE TextLen(_)
TextLen(t) == IF t = <<>> THEN 0 ELSE t[1][2] + TextLen(Tail(t))

\* text.replace(/\s+/g, " "): every maximal run of whitespace becomes one space.
RECURSIVE CollapseSpace(_)
CollapseSpace(t) ==
    IF t = <<>> THEN <<>>
    ELSE IF t[1][1] \in Whitespace
         THEN LET rest == CollapseSpace(Tail(t))
              IN IF rest # <<>> /\ rest[1] = <<" ", 1>>
                 THEN rest
                 ELSE << <<" ", 1>> >> \o rest
         ELSE <<t[1]>> \o CollapseSpace(Tail(t))

RECURSIVE TrimStart(_)
TrimStart(t) ==
    IF t # <<>> /\ t[1][1] \in Whitespace THEN TrimStart(Tail(t)) ELSE t

RECURSIVE TrimEnd(_)
TrimEnd(t) ==
    IF t # <<>> /\ t[Len(t)][1] \in Whitespace
    THEN TrimEnd(SubSeq(t, 1, Len(t) - 1))
    ELSE t

\* String.prototype.trim
Trim(t) == TrimEnd(TrimStart(t))

\* text.slice(0, n)
RECURSIVE Slice(_, _)
Slice(t, n) ==
    IF t = <<>> \/ n <= 0 THEN <<>>
    ELSE IF t[1][2] >= n THEN << <<t[1][1], n>> >>
    ELSE <<t[1]>> \o Slice(Tail(t), n - t[1][2])

\* A parsed page is a sequence of body elements [tag, text].
\* $("script, style, noscript").remove(); $("body").text()
RECURSIVE BodyText(_)
BodyText(doc) ==
    IF doc = <<>> THEN <<>>
    ELSE IF doc[1].tag \in {"script", "style", "noscript"}
         THEN BodyText(Tail(doc))
         ELSE doc[1].text \o BodyText(Tail(doc))

NormalizedText(doc) == Trim(CollapseSpace(BodyText(doc)))

\* ---------------------------------------------------------------- stage operations
\* Mutant: a failed lookup reports dns_ips as the empty string.
DnsLookupResultEmptyIps(o) ==
    IF o.kind = "err"
    THEN [has_dns |-> FALSE, dns_ips |-> Present(<<>>)]
    ELSE [has_dns |-> TRUE, dns_ips |-> Present(Join(o.addresses, <<";">>))]

\* dnsLookup's promise, from the outcome of resolver.resolve4 (lines 61-64).
DnsLookupResult(o) ==
    IF o.kind = "err"
    THEN [has_dns |-> FALSE, dns_ips |-> Absent]
    ELSE [has_dns |-> TRUE, dns_ips |-> Present(Join(o.addresses, <<";">>))]

\* httpCheck's candidate list (lines 79-84).
Urls(domain) ==
    << S_https \o domain \o S_slash,
       S_https \o S_www \o domain \o S_slash,
       S_http \o domain \o S_slash,
       S_http \o S_www \o domain \o S_slash >>

HttpNotOk ==
    [http_ok |-> FALSE, final_url |-> Absent, status_code |-> Absent,
     used_https |-> FALSE]

StatusOk(status) == status >= 200 /\ status < 400

\* Mutant: a status outside [200,400) ends the probe instead of falling
\* through to the next candidate.
HttpCheckStepNoFallThrough(o) ==
    IF o.kind = "resp"
    THEN LET finalUrl == o.responseUrl
         IN IF isIpHost(finalUrl) \/ ~StatusOk(o.status)
            THEN [done |-> TRUE, res |-> HttpNotOk]
            ELSE [done |-> TRUE,
                  res |-> [http_ok |-> TRUE,
                           final_url |-> Present(finalUrl),
                           status_code |-> Present(o.status),
                           used_https |-> StartsWith(finalUrl, S_https)]]
    ELSE [done |-> FALSE, res |-> HttpNotOk]

\* Mutant: a final URL on an IP host is skipped with 'continue', so the
\* remaining candidates are still requested.
HttpCheckStepIpContinues(o) ==
    IF o.kind = "resp" /\ StatusOk(o.status)
    THEN LET finalUrl == o.responseUrl
         IN IF isIpHost(finalUrl)
            THEN [done |-> FALSE, res |-> HttpNotOk]
            ELSE [done |-> TRUE,
                  res |-> [http_ok |-> TRUE,
                           final_url |-> Present(finalUrl),
                           status_code |-> Present(o.status),
                           used_https |-> StartsWith(finalUrl, S_https)]]
    ELSE [done |-> FALSE, res |-> HttpNotOk]

\* One pass of httpCheck's loop body (lines 87-108) on the outcome o of the
\* awaited axios.get: done with a result, or fall through to the next
\* candidate.
HttpCheckStep(o) ==
    IF o.kind = "resp" /\ StatusOk(o.status)
    THEN LET finalUrl == o.responseUrl
         IN IF isIpHost(finalUrl)
            THEN [done |-> TRUE, res |-> HttpNotOk]
            ELSE [done |-> TRUE,
                  res |-> [http_ok |-> TRUE,
                           final_url |-> Present(finalUrl),
                           status_code |-> Present(o.status),
                           used_https |-> StartsWith(finalUrl, S_https)]]
    ELSE [done |-> FALSE, res |-> HttpNotOk]

TextNotOk == [homepage_text |-> Absent, text_ok |-> FALSE]

\* axios's default validateStatus: a status outside 2xx rejects the request.
AxiosRejects(o) ==
    o.kind = "error" \/ ~(o.status >= 200 /\ o.status < 300)

TextAccepted(text) == TextLen(text) >= TEXT_MIN_CHARS

\* Mutant: the length is tested before whitespace is collapsed and trimmed.
FetchTextResultRawLength(o) ==
    IF AxiosRejects(o) THEN TextNotOk
    ELSE IF ~StatusOk(o.status) THEN TextNotOk
    ELSE IF ~o.parses THEN TextNotOk
    ELSE IF TextAccepted(BodyText(o.data))
         THEN [homepage_text |-> Present(Slice(NormalizedText(o.data), TEXT_MAX_CHARS)),
               text_ok |-> TRUE]
         ELSE TextNotOk

\* fetchText's result (lines 114-129) from the outcome o of axios.get.
FetchTextResult(o) ==
    IF AxiosRejects(o) THEN TextNotOk
    ELSE IF ~StatusOk(o.status) THEN TextNotOk
    ELSE IF ~o.parses THEN TextNotOk
    ELSE LET text == NormalizedText(o.data)
         IN IF TextAccepted(text)
            THEN [homepage_text |-> Present(Slice(text, TEXT_MAX_CHARS)),
                  text_ok |-> TRUE]
            ELSE TextNotOk

\* ---------------------------------------------------------------- environment
D1 == <<"a", ".", "i", "o">>
D2 == <<"b", ".", "i", "o">>
IP1 == <<"1", ".", "2", ".", "3", ".", "4">>
IP2 == <<"1", "0", ".", "0", ".", "0", ".", "2", "5", "5">>
IpUrl == S_http \o IP1 \o S_slash
IpPortUrl == S_https \o IP2 \o <<":", "8", "4", "4", "3">> \o S_slash
Ip6Url == S_https \o <<"[", ":", ":", "1", "]">> \o S_slash

\* Rows of the input file; a row with an empty domain is skipped on load.
RowValues == {[domain |-> D1], [domain |-> D2], [domain |-> <<>>]}
Inputs == UNION {[1..k -> RowValues] : k \in 0..MaxRows}
BurstInput == [k \in 1..BurstRows |-> [domain |-> IF k % 2 = 1 THEN D1 ELSE D2]]

\* resolver.resolve4: an error callback, an address list, or a synchronous
\* throw inside the promise executor (which rejects dnsLookup's promise).
\* A name that resolves has one answer: D1 one address, D2 two.
Addresses(d) == IF d = D1 THEN <<IP1>> ELSE <<IP1, IP2>>
ResolveOk(d) == {[kind |-> "ok", addresses |-> Addresses(d)]}
ResolveOutcomes(d) == ResolveOk(d) \cup {[kind |-> "err"], [kind |-> "throw"]}

\* axios.get with validateStatus: () => true: a network error, or a response
\* with its status and the URL it was finally served from.
ProbeOk(u) == {[kind |-> "resp", status |-> 200, responseUrl |-> u]}
ProbeOutcomes(u) ==
    ProbeOk(u)
    \cup {[kind |-> "error"],
          [kind |-> "resp", status |-> 400, responseUrl |-> u],
          [kind |-> "resp", status |-> 399, responseUrl |-> Ip6Url],
          [kind |-> "resp", status |-> 200, responseUrl |-> IpUrl],
          [kind |-> "resp", status |-> 200, responseUrl |-> IpPortUrl]}

P(text) == [tag |-> "p", text |-> text]
DocScript ==
    << [tag |-> "script", text |-> << <<"x", 5000>> >>],
       P(<< <<" ", 2>>, <<"b", TEXT_MIN_CHARS>>, <<"\n", 1>> >>),
       [tag |-> "style", text |-> << <<"y", 300>> >>] >>
Docs ==
    { DocScript,
      << P(<< <<"a", TEXT_MIN_CHARS - 1>> >>) >>,
      << P(<< <<" ", 1>>, <<"a", TEXT_MIN_CHARS - 1>>, <<" ", 1>> >>) >>,
      << P(<< <<"a", 100>>, <<" ", 150>>, <<"\n", 3>> >>), P(<< <<"\t", 1>>, <<"b", 50>> >>) >>,
      << P(<< <<"a", TEXT_MAX_CHARS>> >>) >>,
      << P(<< <<"a", TEXT_MAX_CHARS>>, <<"b", 1>> >>) >>,
      << [tag |-> "noscript", text |-> << <<"z", 400>> >>] >> }

\* axios.get of fetchText: a network error, or a response with its status
\* and body; a body cheerio cannot load does not parse.
ExtractOk == {[kind |-> "resp", status |-> 200, parses |-> TRUE, data |-> DocScript]}
ExtractOutcomes ==
    ExtractOk
    \cup {[kind |-> "error"],
          [kind |-> "resp", status |-> 404, parses |-> TRUE, data |-> DocScript],
          [kind |-> "resp", status |-> 200, parses |-> FALSE, data |-> <<>>]}
    \cup {[kind |-> "resp", status |-> 200, parses |-> TRUE, data |-> d] : d \in Docs}

\* What the outside world may answer: everything, or (for a long input)
\* only the answers that take every domain through all three stages.
CandidateUrls == UNION {{Urls(d)[k] : k \in 1..4} : d \in {D1, D2}}
FullEnv ==
    [resolve |-> [d \in {D1, D2} |-> ResolveOutcomes(d)],
     probe |-> [u \in CandidateUrls |-> ProbeOutcomes(u)],
     extract |-> ExtractOutcomes]
BurstEnv ==
    [resolve |-> [d \in {D1, D2} |-> ResolveOk(d)],
     probe |-> [u \in CandidateUrls |-> ProbeOk(u)],
     extract |-> ExtractOk]

\* One answer for each way a stage call can end: main's path through a pass
\* depends on the kind of answer, not on the text or the URL it carries.
LiveEnv ==
    [resolve |-> [d \in {D1, D2} |-> ResolveOutcomes(d)],
     probe |-> [u \in CandidateUrls |->
                  ProbeOk(u) \cup {[kind |-> "error"],
                                   [kind |-> "resp", status |-> 200,
                                    responseUrl |-> IpUrl]}],
     extract |-> ExtractOk \cup {[kind |-> "error"]}]

\* ---------------------------------------------------------------- state
VARIABLES
    input,        \* the rows of the input file
    cursor,       \* rows read so far
    rows,         \* main's rows: the loaded rows with a domain
    pc,           \* main's position
    i,            \* the loop index
    stage,        \* main's local 'stage'
    dnsRes,       \* { has_dns, dns_ips } once Resolve returned
    httpRes,      \* httpRes once Probe returned
    textRes,      \* textRes once Extract returned
    results,
    dnsCount, httpCount, textCount,
    dnsErrors, httpErrors, textErrors,
    activeCount,  \* per limiter: p-limit's count of running calls
    queue,        \* per limiter: the calls waiting for admission
    inflight,     \* per stage: stage functions invoked and not yet settled
    probeIdx,     \* httpCheck: the candidate whose request is awaited (0: none)
    calls,        \* history: the stage functions invoked for the current domain
    requested,    \* history: the requests of the httpCheck call that last
                  \* ran, kept until another stage function starts
    fetched,      \* history: the response fetchText received
    resolved,     \* history: what resolver.resolve4 did for dnsLookup
    progress,     \* history: the snapshots logged, by domain number
    written,      \* history: the batches handed to writeParquetFile
    errors,       \* what main().catch(console.error) printed
    exitCode      \* process.exitCode: the code the process ends with

counters == <<dnsCount, httpCount, textCount, dnsErrors, httpErrors, textErrors>>
loaded == <<input, cursor, rows>>
locals == <<stage, dnsRes, httpRes, textRes>>
limiters == <<activeCount, queue, inflight>>
history == <<calls, requested, fetched, resolved>>
process == <<errors, exitCode>>
vars == <<loaded, pc, i, locals, results, counters, limiters, probeIdx,
          history, progress, written, process>>

InitWith(in) ==
    /\ input = in
    /\ cursor = 0
    /\ rows = <<>>
    /\ pc = "load"
    /\ i = 0
    /\ stage = "fail"
    /\ dnsRes = Absent
    /\ httpRes = Absent
    /\ textRes = Absent
    /\ results = <<>>
    /\ dnsCount = 0 /\ httpCount = 0 /\ textCount = 0
    /\ dnsErrors = 0 /\ httpErrors = 0 /\ textErrors = 0
    /\ activeCount = [s \in Stages |-> 0]
    /\ queue = [s \in Stages |-> <<>>]
    /\ inflight = [s \in Stages |-> 0]
    /\ probeIdx = 0
    /\ calls = <<>>
    /\ requested = <<>>
    /\ fetched = Absent
    /\ resolved = Absent
    /\ progress = <<>>
    /\ written = <<>>
    /\ errors = <<>>
    /\ exitCode = 0

Init == \E in \in Inputs : InitWith(in)

InitBurst == InitWith(BurstInput)

\* ---------------------------------------------------------------- records
\* The object literals main pushes (lines 171, 177, 183, 188-195, 199).
DnsFailRecord(domain, d, st) ==
    [domain |-> domain, has_dns |-> d.has_dns, dns_ips |-> d.dns_ips,
     http_ok |-> FALSE, final_url |-> Absent, status_code |-> Absent,
     used_https |-> FALSE, text_ok |-> FALSE, homepage_text |-> Absent,
     stage |-> st]

\* Mutant: 'stage' is advanced before httpRes.http_ok is tested.
HttpFailRecordStageEarly(domain, d, h, st) ==
    [domain |-> domain, has_dns |-> d.has_dns, dns_ips |-> d.dns_ips,
     http_ok |-> h.http_ok, final_url |-> h.final_url,
     status_code |-> h.status_code, used_https |-> h.used_https,
     text_ok |-> FALSE, homepage_text |-> Absent, stage |-> "http"]

HttpFailRecord(domain, d, h, st) ==
    [domain |-> domain, has_dns |-> d.has_dns, dns_ips |-> d.dns_ips,
     http_ok |-> h.http_ok, final_url |-> h.final_url,
     status_code |-> h.status_code, used_https |-> h.used_https,
     text_ok |-> FALSE, homepage_text |-> Absent, stage |-> st]

FullRecord(domain, d, h, t, st) ==
    [domain |-> domain, has_dns |-> d.has_dns, dns_ips |-> d.dns_ips,
     http_ok |-> h.http_ok, final_url |-> h.final_url,
     status_code |-> h.status_code, used_https |-> h.used_https,
     text_ok |-> t.text_ok, homepage_text |-> t.homepage_text, stage |-> st]

\* Mutant: the catch block reuses the local 'stage' instead of "fail".
FaultRecordStaleStage(domain) ==
    [domain |-> domain, has_dns |-> FALSE, dns_ips |-> Absent,
     http_ok |-> FALSE, final_url |-> Absent, status_code |-> Absent,
     used_https |-> FALSE, text_ok |-> FALSE, homepage_text |-> Absent,
     stage |-> stage]

FaultRecord(domain) ==
    [domain |-> domain, has_dns |-> FALSE, dns_ips |-> Absent,
     http_ok |-> FALSE, final_url |-> Absent, status_code |-> Absent,
     used_https |-> FALSE, text_ok |-> FALSE, homepage_text |-> Absent,
     stage |-> "fail"]

\* ---------------------------------------------------------------- main
Domain == rows[i + 1].domain

\* while ((rec = await cursor.next())) { if (rec.domain) rows.push(rec); }
ReadRow ==
    /\ pc = "load"
    /\ cursor < Len(input)
    /\ LET rec == input[cursor + 1]
       IN rows' = IF rec.domain # <<>> THEN Append(rows, rec) ELSE rows
    /\ cursor' = cursor + 1
    /\ UNCHANGED <<input, pc, i, locals, results, counters, limiters, probeIdx,
                   history, progress, written, process>>

\* cursor.next() returned null: close the reader, create the limiters, the
\* results list and the counters, and enter the loop.
ReadEnd ==
    /\ pc = "load"
    /\ cursor = Len(input)
    /\ pc' = "loop"
    /\ UNCHANGED <<loaded, i, locals, results, counters, limiters, probeIdx,
                   history, progress, written, process>>

\* limit(fn): the call joins the limiter's queue.
Enqueue(s, arg) == queue' = [queue EXCEPT ![s] = Append(@, arg)]

\* Mutant: dnsLookup(domain) is called outside the limiter and not awaited:
\* the lookup is left running, has_dns is undefined, the domain is recorded as
\* failed and the loop moves on.
StartIterationNoAwait ==
    /\ pc = "loop"
    /\ i < Len(rows)
    /\ stage' = "fail"
    /\ dnsRes' = Absent /\ httpRes' = Absent /\ textRes' = Absent
    /\ calls' = <<[stage |-> "dns", arg |-> Domain]>>
    /\ requested' = <<>> /\ fetched' = Absent /\ resolved' = Absent
    /\ inflight' = [inflight EXCEPT !["dns"] = @ + 1]
    /\ dnsErrors' = dnsErrors + 1
    /\ results' = Append(results,
                     DnsFailRecord(Domain, [has_dns |-> FALSE, dns_ips |-> Absent], "fail"))
    /\ i' = i + 1
    /\ UNCHANGED <<loaded, pc, dnsCount, httpCount, textCount, httpErrors,
                   textErrors, activeCount, queue, probeIdx, progress, written, process>>

\* The loop test passes: a new iteration starts and awaits
\* dnsLimit(() => dnsLookup(domain)).
StartIteration ==
    /\ pc = "loop"
    /\ i < Len(rows)
    /\ stage' = "fail"
    /\ dnsRes' = Absent /\ httpRes' = Absent /\ textRes' = Absent
    /\ calls' = <<>> /\ requested' = <<>> /\ fetched' = Absent
    /\ resolved' = Absent
    /\ Enqueue("dns", Domain)
    /\ pc' = "dns_wait"
    /\ UNCHANGED <<loaded, i, results, counters, activeCount, inflight,
                   probeIdx, progress, written, process>>

\* Mutant: the loop test is i < rows.length - 1, so main leaves the loop
\* before the last row's pass.
LoopExitEarly ==
    /\ pc = "loop"
    /\ i + 1 >= Len(rows)
    /\ pc' = "write"
    /\ stage' = "fail"
    /\ dnsRes' = Absent /\ httpRes' = Absent /\ textRes' = Absent
    /\ calls' = <<>> /\ requested' = <<>> /\ fetched' = Absent
    /\ resolved' = Absent
    /\ UNCHANGED <<loaded, i, results, counters, limiters, probeIdx,
                   progress, written, process>>

\* Mutant: the loop test is i <= rows.length, so main reads rows[i].domain
\* past the last row, outside the try statement, and the run ends there.
LoopExitOvershoot ==
    /\ pc = "loop"
    /\ i >= Len(rows)
    /\ pc' = "aborted"
    /\ stage' = "fail"
    /\ dnsRes' = Absent /\ httpRes' = Absent /\ textRes' = Absent
    /\ calls' = <<>> /\ requested' = <<>> /\ fetched' = Absent
    /\ resolved' = Absent
    /\ UNCHANGED <<loaded, i, results, counters, limiters, probeIdx,
                   progress, written, process>>

\* The loop test fails: main leaves the loop (and the scope of the
\* iteration's locals) and goes on to writeParquetFile.
LoopExit ==
    /\ pc = "loop"
    /\ i >= Len(rows)
    /\ pc' = "write"
    /\ stage' = "fail"
    /\ dnsRes' = Absent /\ httpRes' = Absent /\ textRes' = Absent
    /\ calls' = <<>> /\ requested' = <<>> /\ fetched' = Absent
    /\ resolved' = Absent
    /\ UNCHANGED <<loaded, i, results, counters, limiters, probeIdx,
                   progress, written, process>>

\* p-limit admits the oldest waiting call while fewer than 'concurrency'
\* calls run, and invokes the stage function; httpCheck at once requests its
\* first candidate.
Admit(s) ==
    /\ queue[s] # <<>>
    /\ activeCount[s] < Concurrency(s)
    /\ LET arg == Head(queue[s])
       IN /\ queue' = [queue EXCEPT ![s] = Tail(@)]
          /\ activeCount' = [activeCount EXCEPT ![s] = @ + 1]
          /\ inflight' = [inflight EXCEPT ![s] = @ + 1]
          /\ calls' = Append(calls, [stage |-> s, arg |-> arg])
          /\ IF s = "http"
             THEN /\ probeIdx' = 1
                  /\ requested' = <<[url |-> Urls(arg)[1], reply |-> Absent]>>
             ELSE /\ requested' = <<>>
                  /\ UNCHANGED probeIdx
    /\ UNCHANGED <<loaded, pc, i, locals, results, counters, fetched, resolved,
                   progress, written, process>>

\* The stage function's promise settles: p-limit's next() frees the slot.
Settled(s) ==
    /\ activeCount' = [activeCount EXCEPT ![s] = @ - 1]
    /\ inflight' = [inflight EXCEPT ![s] = @ - 1]

\* if ((i + 1) % LOG_INTERVAL === 0 || i + 1 === rows.length) { log }
LogProgress ==
    progress' = IF (i + 1) % LOG_INTERVAL = 0 \/ i + 1 = Len(rows)
                THEN Append(progress, i + 1)
                ELSE progress

\* push(rec); continue;  -- the loop's next iteration, past the progress log
PushAndContinue(rec) ==
    /\ results' = Append(results, rec)
    /\ i' = i + 1
    /\ pc' = "loop"
    /\ UNCHANGED progress

\* push(rec), fall out of the try statement to the progress log
PushAndLog(rec) ==
    /\ results' = Append(results, rec)
    /\ LogProgress
    /\ i' = i + 1
    /\ pc' = "loop"

\* Mutant: the catch block counts the fault and pushes no record.
CatchAllNoPush ==
    /\ dnsErrors' = dnsErrors + 1
    /\ LogProgress
    /\ i' = i + 1
    /\ pc' = "loop"
    /\ UNCHANGED <<dnsCount, httpCount, textCount, httpErrors, textErrors,
                   stage, queue, results>>

\* catch (e) { dnsErrors++; results.push({... stage: "fail"}); }
CatchAll ==
    /\ dnsErrors' = dnsErrors + 1
    /\ PushAndLog(FaultRecord(Domain))
    /\ UNCHANGED <<dnsCount, httpCount, textCount, httpErrors, textErrors,
                   stage, queue>>

\* Lines 170-173: dnsLookup settles and main resumes after the first await.
ResolveSettles(env) ==
    /\ pc = "dns_wait"
    /\ inflight["dns"] > 0
    /\ Settled("dns")
    /\ \E o \in env.resolve[Domain] :
         /\ resolved' = Present(o)
         /\ IF o.kind = "throw"
            THEN /\ CatchAll
                 /\ UNCHANGED dnsRes
            ELSE LET d == DnsLookupResult(o)
                 IN /\ dnsRes' = Present(d)
                    /\ IF ~d.has_dns
                       THEN /\ dnsErrors' = dnsErrors + 1
                            /\ PushAndContinue(DnsFailRecord(Domain, d, stage))
                            /\ UNCHANGED <<dnsCount, stage, queue>>
                       ELSE /\ dnsCount' = dnsCount + 1
                            /\ stage' = "dns"
                            /\ Enqueue("http", Domain)
                            /\ pc' = "http_wait"
                            /\ UNCHANGED <<dnsErrors, results, i, progress>>
                    /\ UNCHANGED <<httpCount, textCount, httpErrors, textErrors>>
    /\ UNCHANGED <<loaded, httpRes, textRes, probeIdx, calls, requested, fetched,
                   written, process>>

\* Mutant: the not-ok branch pushes its record and lacks 'continue', so main
\* goes on to the text stage.
AfterProbeNoContinue(h) ==
    /\ httpRes' = Present(h)
    /\ IF ~h.http_ok
       THEN /\ httpErrors' = httpErrors + 1
            /\ results' = Append(results, HttpFailRecord(Domain, Val(dnsRes), h, stage))
            /\ Enqueue("text", <<>>)
       ELSE /\ Enqueue("text", Val(h.final_url))
            /\ UNCHANGED <<httpErrors, results>>
    /\ httpCount' = httpCount + 1
    /\ stage' = "http"
    /\ pc' = "text_wait"
    /\ UNCHANGED <<i, progress, dnsCount, textCount, dnsErrors, textErrors>>

\* Lines 176-179: httpCheck returned httpRes and main resumes.
AfterProbe(h) ==
    /\ httpRes' = Present(h)
    /\ IF ~h.http_ok
       THEN /\ httpErrors' = httpErrors + 1
            /\ PushAndContinue(HttpFailRecord(Domain, Val(dnsRes), h, stage))
            /\ UNCHANGED <<httpCount, stage, queue>>
       ELSE /\ httpCount' = httpCount + 1
            /\ stage' = "http"
            /\ Enqueue("text", Val(h.final_url))
            /\ pc' = "text_wait"
            /\ UNCHANGED <<httpErrors, results, i, progress>>
    /\ UNCHANGED <<dnsCount, textCount, dnsErrors, textErrors>>

\* The number of candidates httpCheck walks through.
NumCandidates == Len(Urls(D1))

\* httpCheck's awaited axios.get settles (lines 86-110): return on a status
\* in [200,400), request the next candidate otherwise, return not-ok after
\* the last one.
ProbeResponse(env) ==
    /\ pc = "http_wait"
    /\ probeIdx > 0
    /\ \E o \in env.probe[Urls(Domain)[probeIdx]] :
         LET step == HttpCheckStep(o)
             log == [requested EXCEPT ![probeIdx].reply = Present(o)]
         IN IF ~step.done /\ probeIdx < NumCandidates
            THEN /\ probeIdx' = probeIdx + 1
                 /\ requested' =
                      Append(log, [url |-> Urls(Domain)[probeIdx + 1],
                                   reply |-> Absent])
                 /\ UNCHANGED <<pc, i, stage, httpRes, results, counters,
                                limiters, progress>>
            ELSE /\ probeIdx' = 0
                 /\ requested' = log
                 /\ Settled("http")
                 /\ AfterProbe(step.res)
    /\ UNCHANGED <<loaded, dnsRes, textRes, calls, fetched, resolved, written,
                   process>>

\* Lines 182-195: fetchText returned textRes and main resumes.
ExtractSettles(env) ==
    /\ pc = "text_wait"
    /\ inflight["text"] > 0
    /\ Settled("text")
    /\ \E o \in env.extract :
         LET t == FetchTextResult(o)
         IN /\ fetched' = Present(o)
            /\ textRes' = Present(t)
            /\ IF ~t.text_ok
               THEN /\ textErrors' = textErrors + 1
                    /\ PushAndContinue(
                         FullRecord(Domain, Val(dnsRes), Val(httpRes), t, stage))
                    /\ UNCHANGED <<textCount, stage>>
               ELSE /\ textCount' = textCount + 1
                    /\ stage' = "text"
                    /\ PushAndLog(
                         FullRecord(Domain, Val(dnsRes), Val(httpRes), t, "text"))
                    /\ UNCHANGED textErrors
    /\ UNCHANGED <<loaded, dnsRes, httpRes, dnsCount, httpCount, dnsErrors,
                   httpErrors, queue, probeIdx, calls, requested, resolved,
                   written, process>>

\* An unanticipated fault rejects the awaited Probe or Extract call: main's
\* catch block (lines 197-200) takes over.
StageFault(s) ==
    /\ pc = IF s = "http" THEN "http_wait" ELSE "text_wait"
    /\ inflight[s] > 0
    /\ Settled(s)
    /\ probeIdx' = 0
    /\ CatchAll
    /\ UNCHANGED <<loaded, dnsRes, httpRes, textRes, history, written, process>>

\* await writeParquetFile(FINAL_OUT, results)
WriteOutput ==
    /\ pc = "write"
    /\ written' = Append(written, results)
    /\ pc' = "done"
    /\ UNCHANGED <<loaded, i, locals, results, counters, limiters, probeIdx,
                   history, progress, process>>

\* The reader rejects (openFile, cursor.next or close): main's promise
\* rejects and main().catch(console.error) prints the error (line 227).
ReadFails ==
    /\ pc = "load"
    /\ errors' = Append(errors, "read")
    /\ pc' = "aborted"
    /\ UNCHANGED <<loaded, i, locals, results, counters, limiters, probeIdx,
                   history, progress, written, exitCode>>

\* writeParquetFile rejects (openFile, appendRow or close): main's promise
\* rejects and main().catch(console.error) prints the error (line 227).
WriteFails ==
    /\ pc = "write"
    /\ written' = Append(written, results)
    /\ errors' = Append(errors, "write")
    /\ pc' = "aborted"
    /\ UNCHANGED <<loaded, i, locals, results, counters, limiters, probeIdx,
                   history, progress, exitCode>>

Step(env) ==
    \/ ReadRow
    \/ ReadEnd
    \/ StartIteration
    \/ LoopExit
    \/ \E s \in Stages : Admit(s)
    \/ ResolveSettles(env)
    \/ ProbeResponse(env)
    \/ ExtractSettles(env)
    \/ WriteOutput

Next ==
    \/ Step(FullEnv)
    \/ \E s \in {"http", "text"} : StageFault(s)
    \/ ReadFails
    \/ WriteFails

\* A run whose reader and writer do not fail.
NextLive ==
    \/ Step(LiveEnv)
    \/ \E s \in {"http", "text"} : StageFault(s)

Spec == Init /\ [][Next]_vars

\* A run in which the reader and the writer complete and every pending step
\* is eventually taken: the event loop runs every continuation that is
\* ready, and each stage call settles (TIMEOUT bounds resolve4 and axios).
SpecLive == Init /\ [][NextLive]_vars /\ WF_vars(NextLive)

NextBurst == Step(BurstEnv)

SpecBurst == InitBurst /\ [][NextBurst]_vars

\* ---------------------------------------------------------------- claims
HasDomain(rec) == rec.domain # <<>>
LoopFinished == pc \in {"write", "done"}
OptionalFields(r) == <<r.dns_ips, r.final_url, r.status_code, r.homepage_text>>

\* C1: once the domain loop has finished, results holds exactly one record
\* per input row with a non-empty domain, in the input's order, whatever the
\* stages answered or threw.
C1_OneRecordPerRow ==
    LoopFinished =>
        LET want == SelectSeq(input, HasDomain)
        IN /\ Len(results) = Len(want)
           /\ \A k \in 1..Len(want) : results[k].domain = want[k].domain

\* Two domains, the first hit by a fault after its DNS lookup succeeded, the
\* second carried through to text.
C1_Witness ==
    /\ pc = "done"
    /\ Len(results) = 2
    /\ results[1].domain = D2 /\ results[2].domain = D1
    /\ results[1].stage = "fail" /\ results[2].stage = "text"
    /\ dnsCount = 2

StageFlags(r) ==
    /\ r.stage \in {"fail", "dns", "http", "text"}
    /\ r.stage = "text" => r.has_dns /\ r.http_ok /\ r.text_ok
    /\ r.stage = "http" => r.has_dns /\ r.http_ok /\ ~r.text_ok
    /\ r.stage = "dns" => r.has_dns /\ ~r.http_ok
    /\ r.stage = "fail" => ~r.has_dns

\* C2: every record of results satisfies the stage/flag relation, the
\* records pushed by the catch block included.
C2_StageFlags == \A k \in 1..Len(results) : StageFlags(results[k])

\* A record stopped at the dns stage followed by a record pushed by the
\* catch block when Extract threw, after lookup and probe had succeeded.
C2_Witness ==
    /\ Len(results) = 2
    /\ results[1].stage = "dns"
    /\ results[2].stage = "fail"
    /\ pc = "loop"
    /\ httpRes # Absent /\ textRes = Absent

AbsentFields(r) ==
    /\ r.has_dns <=> r.dns_ips # Absent
    /\ r.http_ok <=> r.final_url # Absent
    /\ r.http_ok <=> r.status_code # Absent
    /\ ~r.http_ok => ~r.used_https
    /\ r.text_ok <=> r.homepage_text # Absent

\* C3: in every record a field is absent (null) exactly when its owning
\* flag is false, and used_https is false when http_ok is.
C3_AbsentFields == \A k \in 1..Len(results) : AbsentFields(results[k])

\* A record of a failed lookup and a record whose probe failed after a
\* successful lookup.
C3_Witness ==
    /\ Len(results) = 2
    /\ ~results[1].has_dns /\ dnsErrors = 1 /\ dnsCount = 1
    /\ results[2].has_dns /\ ~results[2].http_ok

\* The awaited stage call threw: main left the await without a result.
ThrewAt(s) ==
    CASE s = "dns" -> pc = "dns_wait" /\ pc' # "dns_wait" /\ dnsRes' = Absent
      [] s = "http" -> pc = "http_wait" /\ pc' # "http_wait" /\ httpRes' = Absent
      [] s = "text" -> pc = "text_wait" /\ pc' # "text_wait" /\ textRes' = Absent

IsFailRecord(r, domain) ==
    /\ r.domain = domain
    /\ r.stage = "fail"
    /\ ~r.has_dns /\ ~r.http_ok /\ ~r.text_ok /\ ~r.used_https
    /\ \A k \in 1..4 : OptionalFields(r)[k] = Absent

\* C4: when a stage call throws, that step appends exactly one record for
\* the domain, a stage=fail record with every flag false and every optional
\* field absent, adds one to dnsErrors, and moves on to the next domain.
C4_FaultRecorded ==
    [][(\E s \in Stages : ThrewAt(s)) =>
          /\ Len(results') = Len(results) + 1
          /\ SubSeq(results', 1, Len(results)) = results
          /\ IsFailRecord(results'[Len(results')], rows[i + 1].domain)
          /\ dnsErrors' = dnsErrors + 1
          /\ i' = i + 1
          /\ pc' = "loop"]_vars

\* The probe of the first domain threw after its lookup had succeeded, its
\* fail record is in results, and the second domain's pass has begun.
C4_Witness ==
    /\ pc = "dns_wait"
    /\ i = 1
    /\ Len(results) = 1 /\ results[1].stage = "fail"
    /\ dnsCount = 1 /\ dnsErrors = 1 /\ httpErrors = 0

\* The stage calls issued for the current domain: the stage functions
\* invoked, then the calls still waiting in a limiter.
RECURSIVE Waiting(_)
Waiting(order) ==
    IF order = <<>> THEN <<>>
    ELSE IF queue[order[1]] = <<>> THEN Waiting(Tail(order))
    ELSE [k \in 1..Len(queue[order[1]]) |->
             [stage |-> order[1], arg |-> queue[order[1]][k]]]
         \o Waiting(Tail(order))

Issued == calls \o Waiting(<<"dns", "http", "text">>)

\* The domain whose pass is under way, or has just ended.
PassDomain ==
    IF pc \in {"dns_wait", "http_wait", "text_wait"}
    THEN rows[i + 1].domain
    ELSE rows[i].domain

\* C5: the stage calls issued for a domain are a prefix of Resolve, Probe,
\* Extract; Probe is issued only after Resolve returned has_dns, Extract only
\* after Probe returned http_ok and for Probe's final_url; nothing is issued
\* after a negative result; a pass issues Resolve.
C5_StagePrefix ==
    LET issued == Issued
        n == Len(issued)
    IN /\ n <= 3
       /\ \A k \in 1..n : issued[k].stage = <<"dns", "http", "text">>[k]
       /\ n >= 1 => issued[1].arg = PassDomain
       /\ n >= 2 =>
             /\ dnsRes # Absent /\ Val(dnsRes).has_dns
             /\ issued[2].arg = PassDomain
       /\ n >= 3 =>
             /\ httpRes # Absent /\ Val(httpRes).http_ok
             /\ Present(issued[3].arg) = Val(httpRes).final_url
       /\ (dnsRes # Absent /\ ~Val(dnsRes).has_dns) => n = 1
       /\ (httpRes # Absent /\ ~Val(httpRes).http_ok) => n = 2
       /\ (pc \in {"dns_wait", "http_wait", "text_wait"} \/ (pc = "loop" /\ i > 0))
             => n >= 1

\* Extract is running for a final URL that differs from every candidate,
\* after the third candidate was the first to answer.
C5_Witness ==
    /\ pc = "text_wait"
    /\ Len(calls) = 3
    /\ calls[3].arg = Ip6Url
    /\ Val(httpRes).final_url = Present(Ip6Url)

\* C6: the stage functions in flight never outnumber the stage's cap, on an
\* input longer than the three caps together.
C6_CapsRespected == \A s \in Stages : inflight[s] <= Concurrency(s)

\* Extract runs for a domain that comes after more domains than the three
\* caps add up to.
C6_Witness ==
    /\ i >= DNS_CONCURRENCY + HTTP_CONCURRENCY + TEXT_CONCURRENCY
    /\ inflight["text"] = 1
    /\ Len(results) = i

RECURSIVE SumOver(_, _)
SumOver(f, order) ==
    IF order = <<>> THEN 0 ELSE f[order[1]] + SumOver(f, Tail(order))

StageCallsPending ==
    SumOver(inflight, <<"dns", "http", "text">>)
    + SumOver([s \in Stages |-> Len(queue[s])], <<"dns", "http", "text">>)

\* C7: at most one stage call, over all stages and domains, is waiting or
\* in flight, and while one is, the records of all earlier domains and of
\* no other have been appended.
C7_OneAtATime ==
    /\ StageCallsPending <= 1
    /\ StageCallsPending = 1 =>
          /\ pc \in {"dns_wait", "http_wait", "text_wait"}
          /\ Len(results) = i

\* The second domain's lookup is in flight and the first domain's record is
\* in results.
C7_Witness ==
    /\ pc = "dns_wait"
    /\ i = 1
    /\ inflight["dns"] = 1
    /\ Len(results) = 1

\* A host that is four dot-separated groups of one to three digits.
IsDottedQuad(host) ==
    LET dots == {k \in 1..Len(host) : host[k] = "."}
    IN /\ Cardinality(dots) = 3
       /\ \A k \in 1..Len(host) : k \notin dots => host[k] \in Digits
       /\ \A k \in dots \cup {Len(host) + 1} :
             \E n \in 1..3 :
                 /\ k - n >= 1
                 /\ \A j \in (k - n)..(k - 1) : j \notin dots
                 /\ k - n - 1 \in dots \cup {0}

ProbeReturned == httpRes # Absent /\ requested # <<>>
LastReply == Val(requested[Len(requested)].reply)
ReplyOk(reply) == reply.kind = "resp" /\ reply.status >= 200 /\ reply.status < 400

\* C8: httpCheck never returns http_ok with a final URL whose host is a
\* dotted quad; when the answering candidate's final URL has such a host the
\* result is not-ok with final_url and status_code absent.
C8_NoIpHost ==
    /\ \A k \in 1..Len(results) :
          results[k].http_ok => ~IsDottedQuad(Hostname(Val(results[k].final_url)))
    /\ ProbeReturned =>
          /\ Val(httpRes).http_ok =>
                ~IsDottedQuad(Hostname(Val(Val(httpRes).final_url)))
          /\ (ReplyOk(LastReply) /\ IsDottedQuad(Hostname(LastReply.responseUrl))) =>
                /\ ~Val(httpRes).http_ok
                /\ Val(httpRes).final_url = Absent
                /\ Val(httpRes).status_code = Absent

\* The second candidate answered 200 from a dotted-quad host (with a port)
\* and the probe returned not-ok.
C8_Witness ==
    /\ ProbeReturned
    /\ Len(requested) = 2
    /\ LastReply.kind = "resp" /\ LastReply.responseUrl = IpPortUrl
    /\ ~Val(httpRes).http_ok
    /\ Len(results) = i /\ results[i].stage = "dns"

\* C9: httpCheck requests its candidates in the order https bare, https www,
\* http bare, http www, one at a time; a request is made only after every
\* earlier one errored or answered outside [200,400); a probe that returned
\* after a failing last answer had tried all four and is not-ok with every
\* HTTP field absent.
C9_CandidateOrder ==
    /\ Len(requested) <= 4
    /\ \A k \in 1..Len(requested) :
          /\ requested[k].url =
                <<S_https \o PassDomain \o S_slash,
                  S_https \o S_www \o PassDomain \o S_slash,
                  S_http \o PassDomain \o S_slash,
                  S_http \o S_www \o PassDomain \o S_slash>>[k]
          /\ k < Len(requested) =>
                /\ requested[k].reply # Absent
                /\ ~ReplyOk(Val(requested[k].reply))
    /\ (pc = "http_wait" /\ inflight["http"] = 1) =>
          /\ Len(requested) = probeIdx
          /\ requested[probeIdx].reply = Absent
    /\ ProbeReturned =>
          /\ requested[Len(requested)].reply # Absent
          /\ ~ReplyOk(LastReply) =>
                /\ Len(requested) = 4
                /\ Val(httpRes) = [http_ok |-> FALSE, final_url |-> Absent,
                                   status_code |-> Absent, used_https |-> FALSE]

\* All four candidates were requested and failed, by error and by status,
\* and the probe returned not-ok.
C9_Witness ==
    /\ ProbeReturned
    /\ Len(requested) = 4
    /\ Val(requested[1].reply).kind = "error"
    /\ Val(requested[2].reply).kind = "resp"
    /\ Val(requested[3].reply).kind = "resp"
    /\ LastReply.kind = "error"
    /\ ~Val(httpRes).http_ok

InTextBounds(t) ==
    t.text_ok =>
        /\ t.homepage_text # Absent
        /\ TextLen(Val(t.homepage_text)) >= TEXT_MIN_CHARS
        /\ TextLen(Val(t.homepage_text)) <= TEXT_MAX_CHARS

\* C10: a text_ok result or record carries a homepage_text of at least
\* TEXT_MIN_CHARS and at most TEXT_MAX_CHARS characters, and a page whose
\* normalized text is shorter than TEXT_MIN_CHARS gives text_ok false with
\* homepage_text absent.
C10_TextBounds ==
    /\ \A k \in 1..Len(results) : InTextBounds(results[k])
    /\ textRes # Absent =>
          /\ InTextBounds(Val(textRes))
          /\ (/\ Val(fetched).kind = "resp"
              /\ Val(fetched).parses
              /\ TextLen(NormalizedText(Val(fetched).data)) < TEXT_MIN_CHARS) =>
                Val(textRes) = [homepage_text |-> Absent, text_ok |-> FALSE]

\* A page of TEXT_MAX_CHARS + 1 characters was accepted and cut to
\* TEXT_MAX_CHARS.
C10_Witness ==
    /\ textRes # Absent
    /\ Val(textRes).text_ok
    /\ Val(fetched).kind = "resp"
    /\ TextLen(NormalizedText(Val(fetched).data)) = TEXT_MAX_CHARS + 1
    /\ TextLen(Val(Val(textRes).homepage_text)) = TEXT_MAX_CHARS

\* The number of domains whose pass is complete: main pushes a record and
\* moves to the next index in one step.
Completed == i

\* C11: a progress snapshot is logged when domain number k completes, for
\* every k that is a multiple of LOG_INTERVAL and for k = total, whatever
\* stage that domain reached.
C11_SnapshotAtBoundary ==
    pc \in {"loop", "dns_wait", "http_wait", "text_wait", "write", "done"} =>
        \A k \in 1..Completed :
            (k % LOG_INTERVAL = 0 \/ k = Len(rows)) =>
                \E n \in 1..Len(progress) : progress[n] = k

\* C12: a failure to read the input or to write the output aborts the run and
\* the process ends with a non-zero exit code; no other fault aborts the run.
C12_FatalIoNonZeroExit ==
    pc = "aborted" =>
        /\ errors # <<>>
        /\ errors[Len(errors)] \in {"read", "write"}
        /\ exitCode # 0

\* C13: the output batch is handed to the writer once, after the last row's
\* record was appended, and it is the whole results list in append order;
\* results only grows by appending, and nothing is written before the loop
\* has ended.
C13_WriteOnceAtEnd ==
    [][/\ Len(results') >= Len(results)
       /\ SubSeq(results', 1, Len(results)) = results
       /\ written # <<>> => results' = results /\ written' = written
       /\ written' # written =>
             /\ pc = "write" /\ i = Len(rows)
             /\ Len(results) = Len(rows)
             /\ \A k \in 1..Len(rows) : results[k].domain = rows[k].domain
             /\ written' = <<results>>
       /\ pc' = "done" => written' = <<results'>>]_vars

\* A finished run of two rows: the batch written holds the first row's
\* record (stage text) before the second's (stage fail).
C13_Witness ==
    /\ pc = "done"
    /\ Len(written) = 1 /\ Len(written[1]) = 2
    /\ written[1][1].stage = "text" /\ written[1][1].domain = rows[1].domain
    /\ written[1][2].stage = "fail" /\ written[1][2].domain = rows[2].domain

\* The underlying call of a stage failed: an error callback or a thrown
\* exception (resolve4), a rejected request or a non-success status
\* (axios.get), or content that does not parse.
ResolveFailed(o) == o.kind # "ok"
RequestFailed(o) == o.kind # "resp" \/ ~StatusOk(o.status)
FetchFailed(o) == RequestFailed(o) \/ ~o.parses

\* C14: no stage operation raises past its boundary: once the underlying
\* call of a stage has settled, the stage has returned a result, and after
\* a failure of the underlying call the result is the stage's negative one.
C14_NoStageRaises ==
    /\ resolved # Absent =>
          /\ dnsRes # Absent
          /\ ResolveFailed(Val(resolved)) =>
                Val(dnsRes) = [has_dns |-> FALSE, dns_ips |-> Absent]
    /\ (requested # <<>> /\ requested[Len(requested)].reply # Absent) =>
          /\ httpRes # Absent
          /\ RequestFailed(LastReply) => Val(httpRes) = HttpNotOk
    /\ fetched # Absent =>
          /\ textRes # Absent
          /\ FetchFailed(Val(fetched)) => Val(textRes) = TextNotOk

\* main is between two domains, or past the last one.
AtBoundary == pc \in {"loop", "write", "done", "aborted"}

C16_Terminates ==
    /\ <>(/\ pc = "done"
          /\ Len(results) = Len(rows)
          /\ \A k \in 1..Len(rows) : results[k].domain = rows[k].domain
          /\ written = <<results>>)
    /\ [][i' # i => i' = i + 1 /\ Len(results') = Len(results) + 1]_vars

\* A finished run of MaxRows rows: the first domain failed, the second
\* reached text, both records were written.
C16_Witness ==
    /\ pc = "done"
    /\ Len(rows) = MaxRows /\ i = MaxRows
    /\ results[1].stage = "fail" /\ results[MaxRows].stage = "text"
    /\ written = <<results>>

Appends == Len(results') = Len(results) + 1 /\ i' = i + 1

\* C17 as the specification states it: every step that changes a counter
\* is the step that appends the domain's record.
C17_CountersOnlyAtAppend ==
    [][counters' # counters => Appends]_vars

\* C17, amended: counters change only when main resumes from a stage call.
\* The three error counters and textCount change in the step that appends
\* the record; dnsCount and httpCount are incremented when Resolve and Probe
\* return success, before the next stage is awaited and so before the
\* domain's record is appended.
C17_CountersAtStageReturn ==
    [][/\ counters' # counters => pc \in {"dns_wait", "http_wait", "text_wait"}
       /\ (\/ dnsErrors' # dnsErrors \/ httpErrors' # httpErrors
           \/ textErrors' # textErrors \/ textCount' # textCount) => Appends
       /\ dnsCount' # dnsCount =>
             /\ dnsCount' = dnsCount + 1
             /\ pc = "dns_wait" /\ pc' = "http_wait"
             /\ Val(dnsRes').has_dns
             /\ results' = results /\ i' = i
       /\ httpCount' # httpCount =>
             /\ httpCount' = httpCount + 1
             /\ pc = "http_wait" /\ pc' = "text_wait"
             /\ Val(httpRes').http_ok
             /\ results' = results /\ i' = i]_vars

\* Extract is awaited for the first domain: dnsCount and httpCount already
\* count it and no record has been appended.
C17_Witness ==
    /\ pc = "text_wait"
    /\ dnsCount = 1 /\ httpCount = 1
    /\ results = <<>>

\* A host that is a literal IP address: a dotted quad, or an IPv6 address,
\* which a URL carries in square brackets.
IsIpLiteral(host) ==
    \/ IsDottedQuad(host)
    \/ Len(host) >= 2 /\ host[1] = "[" /\ host[Len(host)] = "]"

\* C18: whenever the answering candidate's final URL has a literal IP host
\* of any kind, bracketed IPv6 included, httpCheck returns not-ok.
C18_NoIpLiteralHost ==
    (ProbeReturned /\ ReplyOk(LastReply)
       /\ IsIpLiteral(Hostname(LastReply.responseUrl))) =>
        ~Val(httpRes).http_ok

RECURSIVE CountWhere(_, _)
\* The number of records of recs whose field 'flag' is TRUE.
CountWhere(recs, flag) ==
    IF recs = <<>> THEN 0
    ELSE (IF Head(recs)[flag] THEN 1 ELSE 0) + CountWhere(Tail(recs), flag)

RECURSIVE CountStage(_, _)
\* The number of records of recs whose stage is st.
CountStage(recs, st) ==
    IF recs = <<>> THEN 0
    ELSE (IF Head(recs).stage = st THEN 1 ELSE 0) + CountStage(Tail(recs), st)

AnsweredFromIp(k) ==
    /\ requested[k].reply # Absent
    /\ ReplyOk(Val(requested[k].reply))
    /\ IsDottedQuad(Hostname(Val(requested[k].reply).responseUrl))

====
